---- MODULE Spec2Model ----
(***************************************************************************)
(* Command/response correlation engine of marantz_remote/receiver.py:      *)
(* ReceiverBase (write queue, in-flight Deferred, inbound-line dispatch)   *)
(* and the Control descriptors (value cache, waiter lists, codecs).        *)
(*                                                                         *)
(* Text is modelled as a tuple of one-character strings, so that prefix    *)
(* matching, digit parsing and zero padding are computed, not assumed.     *)
(***************************************************************************)
EXTENDS Integers, Sequences, FiniteSets, TLC

(***************************************************************************)
(* Bounds of the model.                                                    *)
(***************************************************************************)
\* number of calls the host makes in all: ReceiverBase.write, attribute
\* assignments and attribute reads
MaxCalls == 3

(***************************************************************************)
(* Text helpers.                                                           *)
(***************************************************************************)
Digits == <<"0", "1", "2", "3", "4", "5", "6", "7", "8", "9">>

IsDigit(ch) == \E i \in 1..10 : Digits[i] = ch

DigitValue(ch) == (CHOOSE i \in 1..10 : Digits[i] = ch) - 1

\* \s of the regular expressions, restricted to the ASCII characters of the wire
IsSpace(ch) == ch = " "

StartsWith(text, prefix) ==
    /\ Len(text) >= Len(prefix)
    /\ SubSeq(text, 1, Len(prefix)) = prefix

Drop(text, count) == SubSeq(text, count + 1, Len(text))

\* length of the longest prefix of text made of whitespace
RECURSIVE SpaceRun(_)
SpaceRun(text) ==
    IF text # <<>> /\ IsSpace(Head(text)) THEN 1 + SpaceRun(Tail(text)) ELSE 0

\* length of the longest prefix of text made of digits
RECURSIVE DigitRun(_)
DigitRun(text) ==
    IF text # <<>> /\ IsDigit(Head(text)) THEN 1 + DigitRun(Tail(text)) ELSE 0

(***************************************************************************)
(* Values held by the cache and delivered to Deferreds.  One record shape  *)
(* for every Python value: kind "none" is None, "int" an int (field n),    *)
(* "str" a str (field s), "enum" an Enum member (field m: its class and    *)
(* its name).                                                              *)
(***************************************************************************)
None == [kind |-> "none", n |-> 0, s |-> <<>>, m |-> <<"", "">>]
IntVal(i) == [kind |-> "int", n |-> i, s |-> <<>>, m |-> <<"", "">>]
StrVal(text) == [kind |-> "str", n |-> 0, s |-> text, m |-> <<"", "">>]
EnumVal(enum_type, name) == [kind |-> "enum", n |-> 0, s |-> <<>>, m |-> <<enum_type, name>>]
\* the Failure a Deferred holds after errback: m names the exception class
Failure(exc) == [kind |-> "failure", n |-> 0, s |-> <<>>, m |-> <<exc, "">>]

\* Python truth value of a value: None, 0 and "" are false, Enum members true
Truthy(v) ==
    CASE v.kind = "none" -> FALSE
      [] v.kind = "int" -> v.n # 0
      [] v.kind = "str" -> v.s # <<>>
      [] OTHER -> TRUE

(***************************************************************************)
(* Text constants of the catalogue.                                        *)
(***************************************************************************)
Txt_PW == <<"P", "W">>
Txt_MV == <<"M", "V">>
Txt_OFF == <<"O", "F", "F">>
Txt_ON == <<"O", "N">>
Txt_STANDBY == <<"S", "T", "A", "N", "D", "B", "Y">>
Txt_UP == <<"U", "P">>
Txt_DOWN == <<"D", "O", "W", "N">>
Txt_PLUS == <<"+">>
Txt_MINUS == <<"-">>
Txt_CVZRL == <<"C", "V", "Z", "R", "L">>
Txt_MSSMART == <<"M", "S", "S", "M", "A", "R", "T">>
Txt_15M == <<"1", "5", "M">>
Txt_30M == <<"3", "0", "M">>
Txt_60M == <<"6", "0", "M">>
Txt_CVQ == <<"C", "V", "?">>
Txt_CVSW == <<"C", "V", "S", "W">>
Txt_CVSW2 == <<"C", "V", "S", "W", "2">>
Txt_MS == <<"M", "S">>
Txt_MOVIE == <<"M", "O", "V", "I", "E">>
Txt_MUSIC == <<"M", "U", "S", "I", "C">>

\* class Power(Enum): member name and wire token
Power ==
    { [name |-> "Off", value |-> Txt_OFF],
      [name |-> "On", value |-> Txt_ON],
      [name |-> "StandBy", value |-> Txt_STANDBY] }

\* class AutoStandby(Enum)
AutoStandby ==
    { [name |-> "Off", value |-> Txt_OFF],
      [name |-> "In15Minutes", value |-> Txt_15M],
      [name |-> "In30Minutes", value |-> Txt_30M],
      [name |-> "In60Minutes", value |-> Txt_60M] }

\* class SurroundMode(Enum): the members the model keeps
SurroundMode ==
    { [name |-> "Movie", value |-> Txt_MOVIE],
      [name |-> "Music", value |-> Txt_MUSIC] }

EnumTypes == [Power |-> Power, AutoStandby |-> AutoStandby, SurroundMode |-> SurroundMode]

\* Control.__init__ followed by Control.__set_name__: a descriptor of class cls
\* declared as attribute attr with first argument name
Descriptor(cls, attr, name, digits, enum_type) ==
    [ cls |-> cls,
      name |-> attr,
      status_command |-> name \o <<"?">>,
      response_prefix |-> name,
      set_command |-> name,
      digits |-> digits,
      enum_type |-> enum_type ]

\* the keyword argument status_command of Control.__init__
WithStatusCommand(descriptor, status_command) ==
    [descriptor EXCEPT !.status_command = status_command]

\* default of the digits argument of NumericControl.__init__
DefaultDigits == 2

\* the controls of class Receiver the model keeps, in declaration order, which
\* is the order of ReceiverBase.response_handlers
Controls ==
    << Descriptor("EnumControl", "power", Txt_PW, 0, "Power"),
       Descriptor("VolumeControl", "master_volume", Txt_MV, DefaultDigits, ""),
       WithStatusCommand(Descriptor("NumericControl", "smart_select", Txt_MSSMART, 1, ""),
                         Txt_MSSMART \o <<" ", "?">>) >>

Names == { Controls[i].name : i \in 1..Len(Controls) }

ControlOf(name) == Controls[CHOOSE i \in 1..Len(Controls) : Controls[i].name = name]

IsNumeric(ctl) == ctl.cls \in {"NumericControl", "VolumeControl"}

\* a channel volume of class Receiver:
\* VolumeControl(name, status_command="CV?", set_command=name + " ")
ChannelVolume(attr, name) ==
    [Descriptor("VolumeControl", attr, name, DefaultDigits, "")
       EXCEPT !.status_command = Txt_CVQ, !.set_command = name \o <<" ">>]

\* controls of class Receiver whose response prefixes begin alike, in
\* declaration order
Catalogue ==
    << ChannelVolume("channel_volume_subwoofer", Txt_CVSW),
       ChannelVolume("channel_volume_subwoofer2", Txt_CVSW2),
       WithStatusCommand(Descriptor("NumericControl", "smart_select", Txt_MSSMART, 1, ""),
                         Txt_MSSMART \o <<" ", "?">>),
       Descriptor("EnumControl", "surround_mode", Txt_MS, 0, "SurroundMode") >>

CatalogueNames == { Catalogue[i].name : i \in 1..Len(Catalogue) }

CatalogueControlOf(name) ==
    Catalogue[CHOOSE i \in 1..Len(Catalogue) : Catalogue[i].name = name]

(***************************************************************************)
(* Response patterns: re.compile(response_pattern).match(line).            *)
(* The result is [matched, group], group being match.group(1).             *)
(***************************************************************************)
NoMatch == [matched |-> FALSE, group |-> <<>>]

\* Control._response_pattern: prefix(.*)
PlainMatch(prefix, line) ==
    IF StartsWith(line, prefix)
    THEN [matched |-> TRUE, group |-> Drop(line, Len(prefix))]
    ELSE NoMatch

\* NumericControl._response_pattern: prefix(\s*\d+)
NumericMatch(prefix, line) ==
    IF ~StartsWith(line, prefix)
    THEN NoMatch
    ELSE LET rest == Drop(line, Len(prefix))
             k == SpaceRun(rest)
             d == DigitRun(Drop(rest, k))
         IN IF d >= 1
            THEN [matched |-> TRUE, group |-> SubSeq(rest, 1, k + d)]
            ELSE NoMatch

PatternMatch(ctl, line) ==
    IF IsNumeric(ctl)
    THEN NumericMatch(ctl.response_prefix, line)
    ELSE PlainMatch(ctl.response_prefix, line)

(***************************************************************************)
(* Decoding.  A decode result is [ok, value]; ok = FALSE is the exception  *)
(* the parse methods catch.                                                *)
(***************************************************************************)
\* int() over a run of decimal digits
RECURSIVE DigitsToInt(_, _)
DigitsToInt(text, acc) ==
    IF text = <<>> THEN acc
    ELSE DigitsToInt(Tail(text), 10 * acc + DigitValue(Head(text)))

\* int(text): surrounding whitespace is stripped, the rest must be digits
ParseInt(text) ==
    LET body == Drop(text, SpaceRun(text))
    IN IF body # <<>> /\ DigitRun(body) = Len(body)
       THEN [ok |-> TRUE, value |-> IntVal(DigitsToInt(body, 0))]
       ELSE [ok |-> FALSE, value |-> None]

\* a lookup that hands back an unknown token instead of raising ValueError
EnumLookup_AcceptsAny(enum_type, token) ==
    IF \E mem \in EnumTypes[enum_type] : mem.value = token
    THEN [ok |-> TRUE,
          value |-> EnumVal(enum_type,
                            (CHOOSE mem \in EnumTypes[enum_type] : mem.value = token).name)]
    ELSE [ok |-> TRUE, value |-> StrVal(token)]

\* enum_type(token): the member whose value is token, else ValueError
EnumLookup(enum_type, token) ==
    IF \E mem \in EnumTypes[enum_type] : mem.value = token
    THEN [ok |-> TRUE,
          value |-> EnumVal(enum_type,
                            (CHOOSE mem \in EnumTypes[enum_type] : mem.value = token).name)]
    ELSE [ok |-> FALSE, value |-> None]

\* the value each class's parse hands to store_value
Decode(ctl, group) ==
    CASE ctl.cls = "EnumControl" -> EnumLookup(ctl.enum_type, group)
      [] IsNumeric(ctl) -> ParseInt(group)
      [] OTHER -> [ok |-> TRUE, value |-> StrVal(group)]

(***************************************************************************)
(* State.                                                                  *)
(***************************************************************************)
VARIABLES
    receiver,   \* the ReceiverBase instance: its fields, and its transport
    deferreds,  \* Control.deferreds of every descriptor: handles awaiting a value
    reads,      \* the Deferreds handed out by Control.__get__, in creation order
    enqueued,   \* history: every command ever passed to ReceiverBase.write
    preconnect, \* history: how many of them were passed before the connection
    ncalls,     \* history: calls made by the host (writes, assignments, reads)
    inflight,   \* history: a command was transmitted with a deadline armed, and
                \* since then no line was received and no deadline elapsed
    last,       \* history: the operation that produced this state
    echoed,     \* history: the command whose echo that operation handled, if any
    lost,       \* the transport reported connectionLost
    peer,       \* a second ReceiverBase instance of the same class
    peer_reads  \* history: the handles of reads that were made on peer

vars == <<receiver, deferreds, reads, enqueued, preconnect, ncalls, inflight, last, echoed,
          lost, peer, peer_reads>>

\* what only the steps about a lost connection and a second instance change
others == <<lost, peer, peer_reads>>

\* the values of the timeout argument of ReceiverBase.__init__ that are explored
Timeouts == {0, 1}

\* commands the host passes to ReceiverBase.write itself
\* (channel_volume_factory_reset)
RawCommands == {Txt_CVZRL}

\* the attributes the host reads
GetNames == {"power", "master_volume"}

\* values the host assigns to the attribute of a control
SetValues(name) ==
    CASE name = "master_volume" -> {IntVal(7)}
      [] OTHER -> {}

\* inbound lines delivered by the transport
Line_PWON == Txt_PW \o Txt_ON
Line_PWNO == Txt_PW \o <<"N", "O">>
Line_MV00 == Txt_MV \o <<"0", "0">>
Line_MV50 == Txt_MV \o <<"5", "0">>
Line_RWAUTO == <<"R", "W", "A", "U", "T", "O">>

Lines == {Line_PWON, Line_PWNO, Line_MV00, Line_MV50, Line_RWAUTO}

(***************************************************************************)
(* ReceiverBase: the write queue.                                          *)
(* deferred_writer is "None", or a Deferred that is "Waiting" (not yet     *)
(* called, its addTimeout call still scheduled) or "TimedOut" (cancelled   *)
(* by its timeout, hence already called).                                  *)
(***************************************************************************)
\* _write_next taking the newest command instead of the oldest
WriteNext_PopsLast(r) ==
    IF r.protocol = "None" THEN r
    ELSE IF r.pending_writes = <<>> THEN r
    ELSE [r EXCEPT !.pending_writes = SubSeq(@, 1, Len(@) - 1),
                   !.transport = Append(@, r.pending_writes[Len(r.pending_writes)]),
                   !.deferred_writer = IF r.timeout > 0 THEN "Waiting" ELSE @]

\* _write_next arming the deadline whatever the timeout is
WriteNext_ArmsAlways(r) ==
    IF r.protocol = "None" THEN r
    ELSE IF r.pending_writes = <<>> THEN r
    ELSE [r EXCEPT !.pending_writes = Tail(@),
                   !.transport = Append(@, Head(r.pending_writes)),
                   !.deferred_writer = "Waiting"]

\* _write_next without its test of self.protocol
WriteNext_NoProtocolCheck(r) ==
    IF r.pending_writes = <<>> THEN r
    ELSE [r EXCEPT !.pending_writes = Tail(@),
                   !.transport = Append(@, Head(r.pending_writes)),
                   !.deferred_writer = IF r.timeout > 0 THEN "Waiting" ELSE @]

\* ReceiverBase._write_next
WriteNext(r) ==
    IF r.protocol = "None" THEN r
    ELSE IF r.pending_writes = <<>> THEN r
    ELSE [r EXCEPT !.pending_writes = Tail(@),
                   !.transport = Append(@, Head(r.pending_writes)),
                   !.deferred_writer = IF r.timeout > 0 THEN "Waiting" ELSE @]

\* write sending at once, whether or not a Deferred is outstanding
BaseWrite_IgnoresInFlight(r, command) ==
    WriteNext([r EXCEPT !.pending_writes = Append(@, command)])

\* ReceiverBase.write
BaseWrite(r, command) ==
    LET r1 == [r EXCEPT !.pending_writes = Append(@, command)]
    IN IF r1.deferred_writer = "None" THEN WriteNext(r1) ELSE r1

\* ReceiverBase._connected followed by the _write_next callback of __init__
Connected(r) ==
    WriteNext([r EXCEPT !.protocol = "ReceiverProtocol", !.connected = "None"])

\* the tail of ReceiverBase.parse: the slot is released and the Deferred fired.
\* Firing a Deferred that its timeout cancelled is swallowed by the Deferred,
\* so _write_next runs only for one that was still waiting.
ReleaseSlot(r) ==
    IF r.deferred_writer = "None" THEN r
    ELSE LET r1 == [r EXCEPT !.deferred_writer = "None"]
         IN IF r.deferred_writer = "Waiting" THEN WriteNext(r1) ELSE r1

\* the timeout of deferred_writer: addTimeout cancels the Deferred, whose
\* errback is _write_next; deferred_writer itself is not reset
TimeoutFired(r) == WriteNext([r EXCEPT !.deferred_writer = "TimedOut"])

(***************************************************************************)
(* Control: cache and waiters.  st is [r, d, h]: the receiver, the         *)
(* deferreds of the descriptors and the handles.                           *)
(***************************************************************************)
\* Deferred.callback(value) overwriting the result of a cancelled Deferred
Callback_ResolvesCancelled(h, i, value) ==
    [h EXCEPT ![i].called = TRUE, ![i].result = value]

\* Deferred.callback(value) on handle i.  A Deferred that was cancelled has
\* been fired with a Failure and swallows the callback that follows.
Callback(h, i, value) ==
    IF h[i].called THEN h
    ELSE [h EXCEPT ![i].called = TRUE, ![i].result = value]

\* store_value firing only the first Deferred of the list
CallbackAll_OnlyFirst(h, ids, value) ==
    IF ids = <<>> THEN h ELSE Callback(h, Head(ids), value)

RECURSIVE CallbackAll(_, _, _)
CallbackAll(h, ids, value) ==
    IF ids = <<>> THEN h
    ELSE CallbackAll(Callback(h, Head(ids), value), Tail(ids), value)

\* store_value without self.deferreds.clear()
StoreValue_KeepsWaiters(st, ctl, value) ==
    [ r |-> [st.r EXCEPT !.cached_values[ctl.name] = value],
      d |-> st.d,
      h |-> CallbackAll(st.h, st.d[ctl.name], value) ]

\* Control.store_value
StoreValue(st, ctl, value) ==
    [ r |-> [st.r EXCEPT !.cached_values[ctl.name] = value],
      d |-> [st.d EXCEPT ![ctl.name] = <<>>],
      h |-> CallbackAll(st.h, st.d[ctl.name], value) ]

\* clear_value leaving the entry in place
ClearValue_KeepsEntry(st, ctl) == st

\* Control.clear_value
ClearValue(st, ctl) == [st EXCEPT !.r.cached_values[ctl.name] = None]

\* parse handing None to store_value when the capture does not decode
ControlParse_StoresOnFailure(st, ctl, group) ==
    LET dec == Decode(ctl, group)
    IN StoreValue(st, ctl, dec.value)

\* Control.parse, EnumControl.parse, NumericControl.parse
ControlParse(st, ctl, group) ==
    LET dec == Decode(ctl, group)
    IN IF dec.ok THEN StoreValue(st, ctl, dec.value) ELSE ClearValue(st, ctl)

\* the loop of parse testing only the prefix of every pattern
RECURSIVE Dispatch_PrefixOnly(_, _, _)
Dispatch_PrefixOnly(st, line, i) ==
    IF i > Len(Controls) THEN st
    ELSE LET mt == PlainMatch(Controls[i].response_prefix, line)
         IN Dispatch_PrefixOnly(IF mt.matched THEN ControlParse(st, Controls[i], mt.group)
                                ELSE st,
                                line, i + 1)

\* the loop of ReceiverBase.parse over response_handlers, from entry i on
RECURSIVE Dispatch(_, _, _)
Dispatch(st, line, i) ==
    IF i > Len(Controls) THEN st
    ELSE LET mt == PatternMatch(Controls[i], line)
         IN Dispatch(IF mt.matched THEN ControlParse(st, Controls[i], mt.group) ELSE st,
                     line, i + 1)

\* parse releasing the slot only for a line that some pattern matched
Parse_ReleasesOnlyHandled(st, line) ==
    LET st1 == Dispatch(st, line, 1)
        handled == \E i \in 1..Len(Controls) : PatternMatch(Controls[i], line).matched
    IN IF handled THEN [st1 EXCEPT !.r = ReleaseSlot(st1.r)] ELSE st1

\* ReceiverBase.parse
Parse(st, line) ==
    LET st1 == Dispatch(st, line, 1)
    IN [st1 EXCEPT !.r = ReleaseSlot(st1.r)]

\* the loop of parse leaving at the first entry whose pattern matches
RECURSIVE DispatchOver_FirstMatch(_, _, _, _)
DispatchOver_FirstMatch(handlers, st, line, i) ==
    IF i > Len(handlers) THEN st
    ELSE LET mt == PatternMatch(handlers[i], line)
         IN IF mt.matched THEN ControlParse(st, handlers[i], mt.group)
            ELSE DispatchOver_FirstMatch(handlers, st, line, i + 1)

\* the loop of ReceiverBase.parse for a class whose response_handlers is
\* handlers, from entry i on
RECURSIVE DispatchOver(_, _, _, _)
DispatchOver(handlers, st, line, i) ==
    IF i > Len(handlers) THEN st
    ELSE LET mt == PatternMatch(handlers[i], line)
         IN DispatchOver(handlers,
                         IF mt.matched THEN ControlParse(st, handlers[i], mt.group) ELSE st,
                         line, i + 1)

\* ReceiverBase.parse for a class whose response_handlers is handlers
ParseOver(handlers, st, line) ==
    LET st1 == DispatchOver(handlers, st, line, 1)
    IN [st1 EXCEPT !.r = ReleaseSlot(st1.r)]

\* the test of Control.__get__ on cached_values.get(self.name, None)
CacheHit(r, ctl) == Truthy(r.cached_values[ctl.name])

\* Control.__get__
ControlGet(st, ctl) ==
    LET value == st.r.cached_values[ctl.name]
        id == Len(st.h) + 1
    IN IF CacheHit(st.r, ctl)
       THEN [st EXCEPT !.h = Append(@, [control |-> ctl.name, called |-> TRUE, result |-> value])]
       ELSE [ r |-> BaseWrite(st.r, ctl.status_command),
              d |-> [st.d EXCEPT ![ctl.name] = Append(@, id)],
              h |-> Append(st.h, [control |-> ctl.name, called |-> FALSE, result |-> None]) ]

(***************************************************************************)
(* Control.__set__ and its overrides.  Each class computes the text it     *)
(* hands to ReceiverBase.write, or raises: the result is [command, raised],*)
(* raised being the exception that reaches the caller ("" if none).        *)
(***************************************************************************)
\* str(i) for i >= 0
RECURSIVE IntToDigits(_)
IntToDigits(i) ==
    IF i < 10 THEN <<Digits[i + 1]>>
    ELSE IntToDigits(i \div 10) \o <<Digits[(i % 10) + 1]>>

RECURSIVE ZeroPad(_, _)
ZeroPad(text, width) ==
    IF Len(text) >= width THEN text ELSE ZeroPad(<<"0">> \o text, width)

\* the format without its zero fill
FormatNumeric_NoPadding(i, digits) == IntToDigits(i)

\* f"{value:0{digits}}" for an int value >= 0
FormatNumeric(i, digits) == ZeroPad(IntToDigits(i), digits)

RECURSIVE Pow10(_)
Pow10(k) == IF k = 0 THEN 1 ELSE 10 * Pow10(k - 1)

Raise(exc) == [command |-> <<>>, raised |-> exc]

\* Control.__set__ with a value whose str() is text
PlainSet(ctl, text) == [command |-> ctl.set_command \o text, raised |-> ""]

\* EnumControl.__set__: value.value, whatever Enum the member belongs to
EnumSet(ctl, value) ==
    IF value.kind # "enum" THEN Raise("AttributeError")
    ELSE PlainSet(ctl, (CHOOSE mem \in EnumTypes[value.m[1]] : mem.name = value.m[2]).value)

\* NumericControl.__set__ with > in place of >= in its range test
NumericSet_AcceptsUpperBound(ctl, value) ==
    IF value.kind # "int" THEN Raise("TypeError")
    ELSE IF value.n < 0 \/ value.n > Pow10(ctl.digits) THEN Raise("ValueError")
    ELSE PlainSet(ctl, FormatNumeric(value.n, ctl.digits))

\* NumericControl.__set__
NumericSet(ctl, value) ==
    IF value.kind # "int" THEN Raise("TypeError")
    ELSE IF value.n < 0 \/ value.n >= Pow10(ctl.digits) THEN Raise("ValueError")
    ELSE PlainSet(ctl, FormatNumeric(value.n, ctl.digits))

\* VolumeControl.__set__ without its two special cases
VolumeSet_NumericOnly(ctl, value) == NumericSet(ctl, value)

\* VolumeControl.__set__
VolumeSet(ctl, value) ==
    IF value = StrVal(Txt_PLUS) THEN PlainSet(ctl, Txt_UP)
    ELSE IF value = StrVal(Txt_MINUS) THEN PlainSet(ctl, Txt_DOWN)
    ELSE NumericSet(ctl, value)

\* the __set__ of the class of ctl
SetCommand(ctl, value) ==
    CASE ctl.cls = "EnumControl" -> EnumSet(ctl, value)
      [] ctl.cls = "NumericControl" -> NumericSet(ctl, value)
      [] ctl.cls = "VolumeControl" -> VolumeSet(ctl, value)
      [] OTHER -> IF value.kind = "str" THEN PlainSet(ctl, value.s)
                  ELSE PlainSet(ctl, IntToDigits(value.n))

\* an assignment that also stores the assigned value in the cache
ControlSet_StoresValue(r, ctl, value) ==
    LET c == SetCommand(ctl, value)
    IN IF c.raised = ""
       THEN [BaseWrite(r, c.command) EXCEPT !.cached_values[ctl.name] = value]
       ELSE r

\* the effect of the assignment on the receiver
ControlSet(r, ctl, value) ==
    LET c == SetCommand(ctl, value)
    IN IF c.raised = "" THEN BaseWrite(r, c.command) ELSE r

State == [r |-> receiver, d |-> deferreds, h |-> reads]

\* the history variable inflight after a step of kind op that takes the
\* receiver from r to r2: sendLine followed by addTimeout puts a command in
\* flight, a received line or an elapsed deadline ends the wait
InFlightAfter(op, r, r2) ==
    IF Len(r2.transport) > Len(r.transport) THEN r2.timeout > 0
    ELSE IF op \in {"line", "timeout"} THEN FALSE
    ELSE inflight

(***************************************************************************)
(* Specification.                                                          *)
(***************************************************************************)
Init ==
    /\ \E t \in Timeouts :
         receiver = [ protocol |-> "None",
                      connected |-> "Deferred",
                      pending_writes |-> <<>>,
                      deferred_writer |-> "None",
                      timeout |-> t,
                      cached_values |-> [nm \in Names |-> None],
                      transport |-> <<>> ]
    /\ deferreds = [nm \in Names |-> <<>>]
    /\ reads = <<>>
    /\ enqueued = <<>>
    /\ preconnect = 0
    /\ ncalls = 0
    /\ inflight = FALSE
    /\ last = "init"
    /\ echoed = <<>>
    /\ lost = FALSE
    /\ peer = receiver
    /\ peer_reads = {}

\* the connection is established: the connected Deferred fires
Connect ==
    /\ receiver.protocol = "None"
    /\ receiver' = Connected(receiver)
    /\ last' = "connect"
    /\ echoed' = <<>>
    /\ UNCHANGED others
    /\ inflight' = InFlightAfter("connect", receiver, receiver')
    /\ UNCHANGED <<deferreds, reads, enqueued, preconnect, ncalls>>

\* the host calls ReceiverBase.write(command)
Write(command) ==
    /\ ncalls < MaxCalls
    /\ receiver' = BaseWrite(receiver, command)
    /\ enqueued' = Append(enqueued, command)
    /\ preconnect' = IF receiver.protocol = "None" THEN preconnect + 1 ELSE preconnect
    /\ ncalls' = ncalls + 1
    /\ last' = "write"
    /\ echoed' = <<>>
    /\ UNCHANGED others
    /\ inflight' = InFlightAfter("write", receiver, receiver')
    /\ UNCHANGED <<deferreds, reads>>

\* the host assigns value to the attribute of a control
Set(name, value) ==
    /\ ncalls < MaxCalls
    /\ receiver' = ControlSet(receiver, ControlOf(name), value)
    /\ LET c == SetCommand(ControlOf(name), value)
           passed == IF c.raised = "" THEN <<c.command>> ELSE <<>>
       IN /\ enqueued' = enqueued \o passed
          /\ preconnect' = IF receiver.protocol = "None"
                           THEN preconnect + Len(passed) ELSE preconnect
          /\ last' = IF c.raised = "" THEN "set" ELSE c.raised
    /\ ncalls' = ncalls + 1
    /\ echoed' = <<>>
    /\ UNCHANGED others
    /\ inflight' = InFlightAfter("set", receiver, receiver')
    /\ UNCHANGED <<deferreds, reads>>

\* the host reads the attribute of a control
Get(name) ==
    /\ ncalls < MaxCalls
    /\ LET st == ControlGet(State, ControlOf(name))
           passed == IF CacheHit(receiver, ControlOf(name))
                     THEN <<>> ELSE <<ControlOf(name).status_command>>
       IN /\ receiver' = st.r
          /\ deferreds' = st.d
          /\ reads' = st.h
          /\ enqueued' = enqueued \o passed
          /\ preconnect' = IF receiver.protocol = "None"
                           THEN preconnect + Len(passed) ELSE preconnect
    /\ ncalls' = ncalls + 1
    /\ last' = "get"
    /\ echoed' = <<>>
    /\ UNCHANGED others
    /\ inflight' = InFlightAfter("get", receiver, receiver')

\* ReceiverProtocol.lineReceived
LineReceived(line) ==
    /\ receiver.protocol # "None"
    /\ LET st == Parse(State, line)
       IN /\ receiver' = st.r
          /\ deferreds' = st.d
          /\ reads' = st.h
    /\ last' = "line"
    /\ echoed' = <<>>
    /\ UNCHANGED others
    /\ inflight' = InFlightAfter("line", receiver, receiver')
    /\ UNCHANGED <<enqueued, preconnect, ncalls>>

\* the reactor runs the delayed call that addTimeout scheduled
Timeout ==
    /\ receiver.deferred_writer = "Waiting"
    /\ receiver' = TimeoutFired(receiver)
    /\ last' = "timeout"
    /\ echoed' = <<>>
    /\ UNCHANGED others
    /\ inflight' = InFlightAfter("timeout", receiver, receiver')
    /\ UNCHANGED <<deferreds, reads, enqueued, preconnect, ncalls>>

Next ==
    \/ Connect
    \/ \E command \in RawCommands : Write(command)
    \/ \E name \in Names : \E value \in SetValues(name) : Set(name, value)
    \/ \E name \in GetNames : Get(name)
    \/ \E line \in Lines : LineReceived(line)
    \/ Timeout

Spec == Init /\ [][Next]_vars

\* the reactor runs every delayed call that stays scheduled
FairSpec == Spec /\ WF_vars(Timeout)

(***************************************************************************)
(* The read path alone: the host only reads attributes, so every command   *)
(* in the queue is a status command, and the device sends the lines of     *)
(* Lines.                                                                  *)
(***************************************************************************)
MaxReadCalls == 2

ReadNext ==
    \/ Connect
    \/ ncalls < MaxReadCalls /\ \E name \in GetNames : Get(name)
    \/ \E line \in Lines : LineReceived(line)
    \/ Timeout

ReadSpec == Init /\ [][ReadNext]_vars

(***************************************************************************)
(* The codecs.  The host assigns a wider range of    *)
(* values, valid and invalid, to every control, and the device echoes the  *)
(* command it received last, as it does for a setting it accepted.         *)
(***************************************************************************)
MaxCodecCalls == 2

\* values the host assigns to the attribute of a control
CodecValues(name) ==
    CASE name = "power" ->
           {EnumVal("Power", "Off"), EnumVal("Power", "On"), EnumVal("Power", "StandBy"),
            EnumVal("AutoStandby", "In15Minutes"), IntVal(7)}
      [] name = "master_volume" ->
           {IntVal(0 - 1), IntVal(0), IntVal(7), IntVal(100),
            StrVal(Txt_PLUS), StrVal(Txt_MINUS)}
      [] name = "smart_select" ->
           {IntVal(0), IntVal(9), IntVal(10)}
      [] OTHER -> {}

\* lines the device sends of its own accord
CodecLines == {Line_PWNO}

StatusCommands == { Controls[i].status_command : i \in 1..Len(Controls) }

\* the command transmitted last
LastSent == receiver.transport[Len(receiver.transport)]

\* ReceiverProtocol.lineReceived with the text of the command transmitted
\* last: the device confirms a setting by sending it back
Echo ==
    /\ receiver.protocol # "None"
    /\ receiver.transport # <<>>
    /\ LastSent \notin StatusCommands
    /\ LET st == Parse(State, LastSent)
       IN /\ receiver' = st.r
          /\ deferreds' = st.d
          /\ reads' = st.h
    /\ last' = "echo"
    /\ echoed' = LastSent
    /\ UNCHANGED others
    /\ inflight' = InFlightAfter("line", receiver, receiver')
    /\ UNCHANGED <<enqueued, preconnect, ncalls>>

CodecNext ==
    \/ Connect
    \/ ncalls < MaxCodecCalls /\ \E command \in RawCommands : Write(command)
    \/ ncalls < MaxCodecCalls /\ \E name \in Names : \E value \in CodecValues(name) : Set(name, value)
    \/ ncalls < MaxCodecCalls /\ \E name \in Names : Get(name)
    \/ Echo
    \/ \E line \in CodecLines : LineReceived(line)
    \/ Timeout

CodecSpec == Init /\ [][CodecNext]_vars

(***************************************************************************)
(* Waiters.  The host reads attributes and may abandon a read it is        *)
(* waiting for; the transport may report the loss of the connection, after *)
(* which it delivers no line.                                              *)
(***************************************************************************)
MaxWaitCalls == 2

Line_MVB30 == Txt_MV \o <<"B", "3", "0">>

\* lines the device sends: each either decodes for one control or matches no
\* pattern
WaitLines == {Line_PWON, Line_MV50, Line_RWAUTO, Line_MVB30}

\* ReceiverProtocol.connectionLost
ConnectionLost ==
    /\ receiver.protocol # "None"
    /\ ~lost
    /\ lost' = TRUE
    /\ last' = "lost"
    /\ echoed' = <<>>
    /\ UNCHANGED <<receiver, deferreds, reads, enqueued, preconnect, ncalls, inflight,
                   peer, peer_reads>>

\* the caller abandons the read that returned handle i: Deferred.cancel(), by
\* the caller itself or by the timeout it attached with addTimeout
Cancel(i) ==
    /\ ~reads[i].called
    /\ reads' = [reads EXCEPT ![i].called = TRUE, ![i].result = Failure("CancelledError")]
    /\ last' = "cancel"
    /\ echoed' = <<>>
    /\ UNCHANGED others
    /\ UNCHANGED <<receiver, deferreds, enqueued, preconnect, ncalls, inflight>>

WaitNext ==
    \/ Connect
    \/ ncalls < MaxWaitCalls /\ \E name \in GetNames : Get(name)
    \/ ~lost /\ \E line \in WaitLines : LineReceived(line)
    \/ Timeout
    \/ \E i \in 1..Len(reads) : Cancel(i)
    \/ ConnectionLost

WaitSpec == Init /\ [][WaitNext]_vars

(***************************************************************************)
(* Two sessions.  peer is a second instance of the class of receiver: it   *)
(* has its own fields, and the descriptors of the class (with the list     *)
(* Control.__init__ stores in self.deferreds) are those receiver uses.     *)
(***************************************************************************)
MaxPeerCalls == 2

PeerLines == {Line_PWON, Line_MV50}

PeerState == [r |-> peer, d |-> deferreds, h |-> reads]

\* the connection of peer is established
PeerConnect ==
    /\ peer.protocol = "None"
    /\ peer' = Connected(peer)
    /\ last' = "peer connect"
    /\ echoed' = <<>>
    /\ UNCHANGED <<receiver, deferreds, reads, enqueued, preconnect, ncalls, inflight,
                   lost, peer_reads>>

\* the host reads the attribute of a control on peer
PeerGet(name) ==
    /\ LET st == ControlGet(PeerState, ControlOf(name))
       IN /\ peer' = st.r
          /\ deferreds' = st.d
          /\ reads' = st.h
    /\ peer_reads' = peer_reads \cup {Len(reads) + 1}
    /\ ncalls' = ncalls + 1
    /\ last' = "peer get"
    /\ echoed' = <<>>
    /\ UNCHANGED <<receiver, enqueued, preconnect, inflight, lost>>

\* ReceiverProtocol.lineReceived on the protocol of peer
PeerLineReceived(line) ==
    /\ peer.protocol # "None"
    /\ LET st == Parse(PeerState, line)
       IN /\ peer' = st.r
          /\ deferreds' = st.d
          /\ reads' = st.h
    /\ last' = "peer line"
    /\ echoed' = <<>>
    /\ UNCHANGED <<receiver, enqueued, preconnect, ncalls, inflight, lost, peer_reads>>

PeerNext ==
    \/ Connect
    \/ ncalls < MaxPeerCalls /\ \E name \in GetNames : Get(name)
    \/ \E line \in PeerLines : LineReceived(line)
    \/ PeerConnect
    \/ ncalls < MaxPeerCalls /\ \E name \in GetNames : PeerGet(name)
    \/ \E line \in PeerLines : PeerLineReceived(line)

PeerSpec == Init /\ [][PeerNext]_vars

(***************************************************************************)
(* The catalogue.  The session is an instance of a class that declares the *)
(* controls of Catalogue; the host reads them and the device sends a reply *)
(* line of each.                                                           *)
(***************************************************************************)
MaxCatalogueCalls == 2

\* the controls the host reads
CatalogueGetNames ==
    {"channel_volume_subwoofer", "channel_volume_subwoofer2"}

\* the replies the device sends, each with the control it reports
Replies ==
    { [control |-> "channel_volume_subwoofer", line |-> Txt_CVSW \o <<" ", "4", "5">>],
      [control |-> "channel_volume_subwoofer2", line |-> Txt_CVSW2 \o <<" ", "5", "0">>],
      [control |-> "smart_select", line |-> Txt_MSSMART \o <<"1">>],
      [control |-> "surround_mode", line |-> Txt_MS \o Txt_MOVIE] }

CatalogueLines == { rp.line : rp \in Replies }

CatalogueInit ==
    /\ \E t \in Timeouts :
         receiver = [ protocol |-> "None",
                      connected |-> "Deferred",
                      pending_writes |-> <<>>,
                      deferred_writer |-> "None",
                      timeout |-> t,
                      cached_values |-> [nm \in CatalogueNames |-> None],
                      transport |-> <<>> ]
    /\ deferreds = [nm \in CatalogueNames |-> <<>>]
    /\ reads = <<>>
    /\ enqueued = <<>>
    /\ preconnect = 0
    /\ ncalls = 0
    /\ inflight = FALSE
    /\ last = "init"
    /\ echoed = <<>>
    /\ lost = FALSE
    /\ peer = receiver
    /\ peer_reads = {}

\* the host reads the attribute of a control of the catalogue
CatalogueGet(name) ==
    /\ ncalls < MaxCatalogueCalls
    /\ LET st == ControlGet(State, CatalogueControlOf(name))
           passed == IF CacheHit(receiver, CatalogueControlOf(name))
                     THEN <<>> ELSE <<CatalogueControlOf(name).status_command>>
       IN /\ receiver' = st.r
          /\ deferreds' = st.d
          /\ reads' = st.h
          /\ enqueued' = enqueued \o passed
          /\ preconnect' = IF receiver.protocol = "None"
                           THEN preconnect + Len(passed) ELSE preconnect
    /\ ncalls' = ncalls + 1
    /\ last' = "get"
    /\ echoed' = <<>>
    /\ UNCHANGED others
    /\ inflight' = InFlightAfter("get", receiver, receiver')

\* ReceiverProtocol.lineReceived
CatalogueLineReceived(line) ==
    /\ receiver.protocol # "None"
    /\ LET st == ParseOver(Catalogue, State, line)
       IN /\ receiver' = st.r
          /\ deferreds' = st.d
          /\ reads' = st.h
    /\ last' = "line"
    /\ echoed' = <<>>
    /\ UNCHANGED others
    /\ inflight' = InFlightAfter("line", receiver, receiver')
    /\ UNCHANGED <<enqueued, preconnect, ncalls>>

CatalogueNext ==
    \/ Connect
    \/ \E name \in CatalogueGetNames : CatalogueGet(name)
    \/ \E line \in CatalogueLines : CatalogueLineReceived(line)

CatalogueSpec == CatalogueInit /\ [][CatalogueNext]_vars

(***************************************************************************)
(* Properties.                                                             *)
(***************************************************************************)
IsConnected == receiver.protocol # "None"

Transmitted(r, r2) == Len(r2.transport) > Len(r.transport)

\* the delayed call of addTimeout is scheduled: a deadline is yet to elapse
DeadlineArmed == receiver.deferred_writer = "Waiting"

\* C1: with a timeout > 0, while a command is in flight (transmitted, and since
\* then no line received and no deadline elapsed) no step other than the receipt
\* of a line or the expiry of the deadline transmits a command, and no step
\* transmits more than one command.
C1_OneInFlight ==
    [][ receiver.timeout > 0 =>
          /\ Len(receiver'.transport) <= Len(receiver.transport) + 1
          /\ (inflight /\ Transmitted(receiver, receiver')) => last' \in {"line", "timeout"}
      ]_vars

\* a command is in flight and a command enqueued meanwhile waits in the queue
C1_Witness ==
    /\ IsConnected /\ receiver.timeout > 0 /\ inflight
    /\ last \in {"write", "set", "get"}
    /\ receiver.pending_writes # <<>>
    /\ receiver.transport # <<>>

\* C2: the commands transmitted so far followed by the pending queue are exactly
\* the commands enqueued so far, in enqueue order.
C2_FifoNoLossNoDup == enqueued = receiver.transport \o receiver.pending_writes

\* some commands were transmitted, others, different ones, still wait
C2_Witness ==
    /\ Len(receiver.transport) >= 1
    /\ Len(receiver.pending_writes) >= 2
    /\ receiver.pending_writes[1] # receiver.pending_writes[2]
    /\ receiver.transport[1] # receiver.pending_writes[1]

\* C3: with a timeout > 0 and a command in flight, the receipt of a line, matched
\* or not, transmits exactly the head of the queue and arms a new deadline, or,
\* the queue being empty, leaves the session idle with no Deferred outstanding.
C3_LineReleasesSlot ==
    [][ (IsConnected /\ receiver.timeout > 0 /\ inflight /\ last' = "line") =>
          IF receiver.pending_writes # <<>>
          THEN /\ receiver'.transport = Append(receiver.transport, Head(receiver.pending_writes))
               /\ receiver'.pending_writes = Tail(receiver.pending_writes)
               /\ receiver'.deferred_writer = "Waiting"
               /\ inflight'
          ELSE /\ receiver'.transport = receiver.transport
               /\ receiver'.pending_writes = <<>>
               /\ receiver'.deferred_writer = "None"
               /\ ~inflight'
      ]_vars

\* a line has just been handled, three commands were enqueued and the first was
\* in flight: the second is out and the third still waits
C3_Witness ==
    /\ IsConnected /\ receiver.timeout > 0 /\ last = "line" /\ inflight
    /\ Len(receiver.transport) = 2
    /\ Len(receiver.pending_writes) = 1

\* C4: in a connected session with no command in flight, the slot having been
\* released with an empty queue, an enqueue transmits its command within the
\* enqueue itself.
C4_IdleEnqueueTransmits ==
    [][ ( /\ IsConnected /\ ~inflight
          /\ receiver.transport # <<>>
          /\ receiver.pending_writes = <<>>
          /\ Len(enqueued') = Len(enqueued) + 1 ) =>
          receiver'.transport = Append(receiver.transport, enqueued'[Len(enqueued')])
      ]_vars

\* C5: in a connected session with a timeout > 0, every enqueued command is
\* transmitted by the deadline expiries alone, with no line and no further
\* enqueue: whenever no deadline is left to elapse, the queue is empty.
C5_DeadlinesDrainQueue ==
    (IsConnected /\ receiver.timeout > 0 /\ ~DeadlineArmed) => receiver.pending_writes = <<>>

\* C5 as a liveness property of FairSpec: the queue is eventually empty
C5_AllEventuallyTransmitted ==
    (IsConnected /\ receiver.timeout > 0) ~> (receiver.pending_writes = <<>>)

\* C6: with timeout 0, in a session connected with an empty queue, every enqueue
\* transmits at once: the queue is empty and everything enqueued is on the wire,
\* in order.
C6_NoTimeoutDrains ==
    (IsConnected /\ receiver.timeout = 0 /\ preconnect = 0) =>
        /\ receiver.pending_writes = <<>>
        /\ receiver.transport = enqueued

\* three commands enqueued after the connection, with timeout 0 and no line
C6_Witness ==
    /\ IsConnected /\ receiver.timeout = 0 /\ preconnect = 0
    /\ Len(enqueued) = 3
    /\ last \in {"write", "set", "get"}

\* C7: while the session is not connected nothing is written to the stream and
\* every enqueued command is in the pending queue, in enqueue order.
C7_NothingSentBeforeConnect ==
    ~IsConnected => (receiver.transport = <<>> /\ receiver.pending_writes = enqueued)

\* two commands enqueued before the connection
C7_Witness == ~IsConnected /\ Len(receiver.pending_writes) >= 2

\* C8: for every timeout, once the connection is open every command enqueued
\* before it is transmitted with no further enqueue and no line: whenever the
\* session is connected and no deadline is left to elapse, all of them are out.
C8_ConnectDrains ==
    (IsConnected /\ ~DeadlineArmed) => Len(receiver.transport) >= preconnect

\* the part of C8 about a timeout > 0
C8_ConnectDrainsWithDeadline ==
    (IsConnected /\ receiver.timeout > 0 /\ ~DeadlineArmed) =>
        Len(receiver.transport) >= preconnect

\* C8 as a liveness property of FairSpec
C8_EventuallyDrained == IsConnected ~> (Len(receiver.transport) >= preconnect)

\* the handle the step has just created, and its control
NewRead == reads'[Len(reads')]
ReadCreated == Len(reads') = Len(reads) + 1

\* C9: a read of a control whose cache entry holds a value returns a handle
\* already resolved with that value, enqueues nothing and registers no waiter.
C9_CacheHitResolves ==
    [][ (ReadCreated /\ receiver.cached_values[NewRead.control] # None) =>
          /\ NewRead.called
          /\ NewRead.result = receiver.cached_values[NewRead.control]
          /\ enqueued' = enqueued
          /\ deferreds' = deferreds
          /\ receiver' = receiver
      ]_vars

\* the line of a step resolves handle i: it matches the pattern of the control
\* of the handle and its capture decodes
ResolvingLine(i, line) ==
    LET ctl == ControlOf(reads[i].control)
        mt == PatternMatch(ctl, line)
    IN mt.matched /\ Decode(ctl, mt.group).ok

\* C10: a read of a control with no cache entry enqueues exactly one copy of the
\* status command and registers exactly one waiter, its handle unresolved; an
\* unresolved handle is resolved only by the receipt of a line that matches the
\* pattern of its control and decodes, by no other line and no other operation.
C10_MissWaitsForMatchingLine ==
    [][ /\ (ReadCreated /\ receiver.cached_values[NewRead.control] = None) =>
             LET ctl == ControlOf(NewRead.control)
             IN /\ ~NewRead.called
                /\ enqueued' = Append(enqueued, ctl.status_command)
                /\ receiver'.transport \o receiver'.pending_writes
                     = Append(receiver.transport \o receiver.pending_writes, ctl.status_command)
                /\ deferreds' = [deferreds EXCEPT ![ctl.name] = Append(@, Len(reads'))]
        /\ \A i \in 1..Len(reads) :
             (~reads[i].called /\ reads'[i].called) =>
                 \E line \in Lines : LineReceived(line) /\ ResolvingLine(i, line)
        /\ \A i \in 1..Len(reads) :
             (~reads[i].called /\ last' # "line") => reads'[i] = reads[i]
      ]_vars

\* a handle of power survived an unmatched line, a line of master_volume and a
\* line of its own control that does not decode: the cache of master_volume is
\* set, that of power is not, and the last step was a line
C10_Witness ==
    /\ last = "line"
    /\ \E i \in 1..Len(reads) : reads[i].control = "power" /\ ~reads[i].called
    /\ deferreds["power"] # <<>>
    /\ receiver.cached_values["master_volume"] # None
    /\ receiver.cached_values["power"] = None

\* the capture of line under the pattern of control k, and its decoding
MatchOf(k, line) == PatternMatch(Controls[k], line)
DecodeOf(k, line) == Decode(Controls[k], MatchOf(k, line).group)

\* the pairs of a line of Lines and a control whose pattern the line matches,
\* split by whether the capture decodes
Decoded ==
    { p \in Lines \X (1..Len(Controls)) :
        MatchOf(p[2], p[1]).matched /\ DecodeOf(p[2], p[1]).ok }
Undecoded ==
    { p \in Lines \X (1..Len(Controls)) :
        MatchOf(p[2], p[1]).matched /\ ~DecodeOf(p[2], p[1]).ok }
DecodedValue == [p \in Decoded |-> DecodeOf(p[2], p[1]).value]

\* C11: after the handling of a line that matches the pattern of a control and
\* decodes, the cache entry of the control is the decoded value, every handle
\* that waited for the control is resolved with that value, and the waiter
\* list of the control is empty.
C11_DecodedLineFulfilsAll ==
    [][ \A p \in Decoded :
          (last' = "line" /\ LineReceived(p[1])) =>
              LET name == Controls[p[2]].name
                  value == DecodedValue[p]
              IN /\ receiver'.cached_values[name] = value
                 /\ deferreds'[name] = <<>>
                 /\ \A j \in 1..Len(deferreds[name]) :
                      LET h == reads'[deferreds[name][j]]
                      IN h.called /\ h.result = value
      ]_vars

\* two reads waited for the same control and one line resolved both
C11_Witness ==
    /\ last = "line"
    /\ \E i, j \in 1..Len(reads) :
         /\ i # j /\ reads[i].control = reads[j].control
         /\ reads[i].called /\ reads[j].called
         /\ reads[i].result = receiver.cached_values[reads[i].control]
         /\ reads[j].result = reads[i].result
         /\ deferreds[reads[i].control] = <<>>
         /\ Len(SelectSeq(enqueued, LAMBDA c : c = ControlOf(reads[i].control).status_command)) = 2

\* C12: a handle once resolved never changes again, whatever is decoded later
\* for its control, and no resolved handle stays in a waiter list.
C12_FulfilledOnce ==
    [][ /\ \A i \in 1..Len(reads) : reads[i].called => reads'[i] = reads[i]
        /\ \A name \in Names : \A j \in 1..Len(deferreds'[name]) :
             ~reads'[deferreds'[name][j]].called
      ]_vars

\* a read was resolved by one line and a later line stored another value for the
\* same control: the handle keeps the value it was resolved with
C12_Witness ==
    /\ last = "line"
    /\ \E i \in 1..Len(reads) :
         /\ reads[i].called
         /\ receiver.cached_values[reads[i].control] # None
         /\ reads[i].result # receiver.cached_values[reads[i].control]

\* C13: the handling of a line that matches the pattern of a control and does
\* not decode removes the cache entry of the control and leaves every handle
\* and every waiter list as it was; a read of a control with no cache entry
\* enqueues the status command and waits.
C13_DecodeFailureInvalidates ==
    [][ /\ \A p \in Undecoded :
             (last' = "line" /\ LineReceived(p[1])) =>
                 /\ receiver'.cached_values[Controls[p[2]].name] = None
                 /\ reads' = reads
                 /\ deferreds' = deferreds
        /\ (ReadCreated /\ receiver.cached_values[NewRead.control] = None) =>
             /\ ~NewRead.called
             /\ enqueued' = Append(enqueued, ControlOf(NewRead.control).status_command)
      ]_vars

\* power was read and resolved, a line with an unknown token then removed the
\* entry, and a second read sent the status command again and waits
C13_Witness ==
    /\ last = "get"
    /\ Len(reads) = 2
    /\ reads[1].control = "power" /\ reads[1].called
    /\ reads[2].control = "power" /\ ~reads[2].called
    /\ receiver.cached_values["power"] = None
    /\ enqueued = <<ControlOf("power").status_command, ControlOf("power").status_command>>

\* every command passed to sendLine or waiting in pending_writes, oldest first
Handed(r) == r.transport \o r.pending_writes

\* value is something the device can report for ctl: an int for a numeric
\* control, a member of its own enumeration for an enumerated control
Reportable(ctl, value) ==
    IF IsNumeric(ctl) THEN value.kind = "int"
    ELSE value.kind = "enum" /\ value.m[1] = ctl.enum_type

\* a read of name right after the device echoed the command the assignment of
\* value produced, that assignment being the last call of the host
ReadAfterEcho(name, value) ==
    LET c == SetCommand(ControlOf(name), value)
    IN /\ c.raised = ""
       /\ Reportable(ControlOf(name), value)
       /\ last = "echo"
       /\ echoed = c.command
       /\ enqueued # <<>> /\ enqueued[Len(enqueued)] = c.command
       /\ Get(name)

\* C14: when value was assigned to a control, the device echoed the command
\* and the control is read next, the handle is resolved at once with value,
\* which is also the cache entry the echo left.
C14_RoundTrip ==
    [][ \A name \in Names : \A value \in CodecValues(name) :
          ReadAfterEcho(name, value) =>
              /\ receiver.cached_values[name] = value
              /\ NewRead.called /\ NewRead.result = value
      ]_vars

\* the same for the values that Python counts as true: every value but 0
C14_RoundTripNonZero ==
    [][ \A name \in Names : \A value \in CodecValues(name) :
          (ReadAfterEcho(name, value) /\ Truthy(value)) =>
              /\ receiver.cached_values[name] = value
              /\ NewRead.called /\ NewRead.result = value
      ]_vars

\* C15: a step that is not the handling of an inbound line (a connection, a
\* write, an assignment accepted or rejected, a read, an elapsed deadline)
\* leaves every cache entry as it was.
C15_OnlyLinesChangeCache ==
    [][ last' \notin {"line", "echo"} =>
          receiver'.cached_values = receiver.cached_values ]_vars

\* an assignment was accepted while the cache held another value for the control
C15_Witness ==
    /\ last = "set"
    /\ enqueued = <<Txt_MV \o <<"0", "7">>, Txt_MV \o <<"0", "0">>>>
    /\ receiver.cached_values["master_volume"] = IntVal(7)

\* the assignment of value to the control name is out of the range of its digits
OutOfRange(name, value) ==
    /\ IsNumeric(ControlOf(name))
    /\ value.kind = "int"
    /\ (value.n < 0 \/ value.n >= Pow10(ControlOf(name).digits))

\* C16: the assignment of an int below 0 or not below 10^digits to a numeric
\* control raises ValueError and changes nothing: no command is handed to the
\* queue or to the transport, and the queue, the deadline, the cache, the
\* waiter lists and the handles stay as they were.
C16_OutOfRangeRejected ==
    [][ \A name \in Names : \A value \in CodecValues(name) :
          (OutOfRange(name, value) /\ Set(name, value)) =>
              /\ last' = "ValueError"
              /\ receiver' = receiver
              /\ deferreds' = deferreds
              /\ reads' = reads
              /\ enqueued' = enqueued
              /\ inflight' = inflight
      ]_vars

\* an assignment was rejected while a command was in flight and a value cached
C16_Witness ==
    /\ last = "ValueError"
    /\ inflight
    /\ Len(enqueued) = 1

\* text is set_command followed by exactly digits decimal digits that read n
IsPaddedCommand(ctl, n, text) ==
    LET body == Drop(text, Len(ctl.set_command))
    IN /\ StartsWith(text, ctl.set_command)
       /\ Len(body) = ctl.digits
       /\ \A j \in 1..Len(body) : IsDigit(body[j])
       /\ DigitsToInt(body, 0) = n

\* the assignment of value to the control name is within the range of its digits
InRange(name, value) ==
    /\ IsNumeric(ControlOf(name))
    /\ value.kind = "int"
    /\ value.n >= 0 /\ value.n < Pow10(ControlOf(name).digits)

\* the step hands exactly one command to the queue
HandsOne ==
    /\ Len(Handed(receiver')) = Len(Handed(receiver)) + 1
    /\ SubSeq(Handed(receiver'), 1, Len(Handed(receiver))) = Handed(receiver)
    /\ enqueued' = Append(enqueued, Handed(receiver')[Len(Handed(receiver'))])

\* C17: the assignment of an int v with 0 <= v < 10^digits to a numeric
\* control hands exactly one command to the queue: the set command followed
\* by exactly digits decimal digits whose value is v.
C17_ZeroPadded ==
    [][ \A name \in Names : \A value \in CodecValues(name) :
          (InRange(name, value) /\ Set(name, value)) =>
              /\ last' = "set"
              /\ HandsOne
              /\ IsPaddedCommand(ControlOf(name), value.n, enqueued'[Len(enqueued')])
      ]_vars

\* 7 was assigned to the two digit control and 0 to the one digit control
C17_Witness ==
    /\ last = "set"
    /\ enqueued = <<Txt_MV \o <<"0", "7">>, Txt_MSSMART \o <<"0">>>>

\* C18: on a VolumeControl the assignment of "+" hands exactly set command
\* followed by UP to the queue and the assignment of "-" set command followed
\* by DOWN; the assignment of an int is treated as on a NumericControl:
\* rejected with ValueError out of range, zero padded within it; and the
\* assignment of anything else raises TypeError.
C18_RelativeVolume ==
    [][ \A name \in Names : \A value \in CodecValues(name) :
          (ControlOf(name).cls = "VolumeControl" /\ Set(name, value)) =>
              LET ctl == ControlOf(name)
              IN CASE value = StrVal(Txt_PLUS) ->
                        /\ last' = "set" /\ HandsOne
                        /\ enqueued'[Len(enqueued')] = ctl.set_command \o Txt_UP
                   [] value = StrVal(Txt_MINUS) ->
                        /\ last' = "set" /\ HandsOne
                        /\ enqueued'[Len(enqueued')] = ctl.set_command \o Txt_DOWN
                   [] InRange(name, value) ->
                        /\ last' = "set" /\ HandsOne
                        /\ IsPaddedCommand(ctl, value.n, enqueued'[Len(enqueued')])
                   [] OutOfRange(name, value) ->
                        /\ last' = "ValueError"
                        /\ receiver' = receiver /\ enqueued' = enqueued
                   [] OTHER ->
                        /\ last' = "TypeError"
                        /\ receiver' = receiver /\ enqueued' = enqueued
      ]_vars

\* "+" and then "-" were assigned to master_volume
C18_Witness ==
    /\ last = "set"
    /\ enqueued = <<Txt_MV \o Txt_UP, Txt_MV \o Txt_DOWN>>
    /\ Handed(receiver) = enqueued

\* the tokens of the table of an enumerated control
Tokens(ctl) == { mem.value : mem \in EnumTypes[ctl.enum_type] }

\* the lines that can arrive in the current state
Arriving == CodecLines \cup (IF receiver.transport = <<>> THEN {} ELSE {LastSent})

\* the step is the handling of line
Handles(line) == LineReceived(line) \/ (Echo /\ line = LastSent)

\* C19: the handling of a line that matches an enumerated control with a
\* token absent from its table stores no value: the entry of the control is
\* removed and no handle changes; and the handling of the echo of the command
\* the assignment of a member of the table produced leaves that member as the
\* cache entry.
C19_EnumRoundTrip ==
    [][ \A k \in 1..Len(Controls) : Controls[k].cls = "EnumControl" =>
          LET ctl == Controls[k]
          IN /\ \A line \in Arriving :
                  (/\ last' \in {"line", "echo"}
                   /\ MatchOf(k, line).matched
                   /\ MatchOf(k, line).group \notin Tokens(ctl)
                   /\ Handles(line)) =>
                      /\ receiver'.cached_values[ctl.name] = None
                      /\ reads' = reads
             /\ \A mem \in EnumTypes[ctl.enum_type] :
                  (/\ last' = "echo"
                   /\ SetCommand(ctl, EnumVal(ctl.enum_type, mem.name)).raised = ""
                   /\ echoed' = SetCommand(ctl, EnumVal(ctl.enum_type, mem.name)).command
                   /\ Echo) =>
                      receiver'.cached_values[ctl.name] = EnumVal(ctl.enum_type, mem.name)
      ]_vars

\* a read of power was resolved with StandBy by the echo of the assignment of
\* StandBy, and a line with an unknown token then removed the entry
C19_Witness ==
    /\ last = "line"
    /\ receiver.cached_values["power"] = None
    /\ Len(reads) = 1 /\ reads[1].control = "power"
    /\ reads[1].called /\ reads[1].result = EnumVal("Power", "StandBy")
    /\ LastSent = Txt_PW \o Txt_STANDBY

\* C20: the assignment to an enumerated control of a value that is not a
\* member of the enumeration of the control raises an exception and hands no
\* command to the queue or to the transport.
C20_ForeignValueRejected ==
    [][ \A name \in Names : \A value \in CodecValues(name) :
          (/\ ControlOf(name).cls = "EnumControl"
           /\ ~Reportable(ControlOf(name), value)
           /\ Set(name, value)) =>
              /\ last' # "set"
              /\ receiver' = receiver
              /\ enqueued' = enqueued
      ]_vars

\* a handle that is still waiting for its value
Pending(h) == { i \in 1..Len(h) : ~h[i].called }

\* C21: when the connection is lost, every read that is still pending is
\* failed with a disconnected signal: after the connection-lost event no
\* handle is pending and no descriptor holds a waiter.
C21_LostFailsPending ==
    [][ConnectionLost =>
         /\ Pending(reads') = {}
         /\ \A name \in Names : deferreds'[name] = <<>>]_vars

\* the handles that wait in the list of some descriptor
WaitingIn(d) == UNION { { d[name][k] : k \in 1..Len(d[name]) } : name \in DOMAIN d }

\* C22: of two sessions built from the same descriptors, a line received on
\* one never fulfils or removes a waiter that a read on the other registered.
C22_SessionsIsolated ==
    [][/\ last' = "peer line" =>
            \A i \in (1..Len(reads)) \ peer_reads :
                 /\ reads'[i] = reads[i]
                 /\ i \in WaitingIn(deferreds) => i \in WaitingIn(deferreds')
       /\ last' = "line" =>
            \A i \in peer_reads :
                 /\ reads'[i] = reads[i]
                 /\ i \in WaitingIn(deferreds) => i \in WaitingIn(deferreds')]_vars

\* the line matches the pattern of no entry of response_handlers
Unmatched(line) == \A k \in 1..Len(Controls) : ~MatchOf(k, line).matched

UnmatchedLines == { line \in WaitLines : Unmatched(line) }

\* C24: the handling of a line that matches no registered pattern completes
\* and leaves the cache, the waiter lists and every handle as they were; of
\* the session only the write slot is released: the commands handed to the
\* session stay the same, in order, and at most the next one is transmitted.
C24_UnmatchedLineOnlyReleases ==
    [][ \A line \in UnmatchedLines :
          (last' = "line" /\ LineReceived(line)) =>
              /\ receiver'.cached_values = receiver.cached_values
              /\ deferreds' = deferreds
              /\ reads' = reads
              /\ receiver'.protocol = receiver.protocol
              /\ receiver'.connected = receiver.connected
              /\ receiver'.timeout = receiver.timeout
              /\ Handed(receiver') = Handed(receiver)
              /\ Len(receiver'.transport) <= Len(receiver.transport) + 1
              /\ receiver.deferred_writer = "None" => receiver' = receiver
              /\ receiver'.deferred_writer \in {"None", "Waiting"}
              /\ receiver'.deferred_writer = "Waiting" =>
                    Len(receiver'.transport) = Len(receiver.transport) + 1
      ]_vars

\* a line was handled and released the slot, so that the status command of
\* the second read went out, while nothing is cached and both reads still
\* wait: the line matched no pattern
C24_Witness ==
    /\ last = "line"
    /\ \A name \in Names : receiver.cached_values[name] = None
    /\ Pending(reads) = {1, 2}
    /\ WaitingIn(deferreds) = {1, 2}
    /\ receiver.timeout > 0
    /\ Len(receiver.transport) = 2
    /\ receiver.pending_writes = <<>>
    /\ UnmatchedLines # {}

\* the handles whose caller abandoned the read
Abandoned(h) == { i \in 1..Len(h) : h[i].result = Failure("CancelledError") }

\* C27: a handle whose caller abandoned the read is never resolved with a
\* value afterwards; and when a line that decodes for a control arrives while
\* an abandoned handle waits in the list of that control, the value is cached,
\* every other waiter of the control is resolved with it, the list is emptied,
\* and the slot is released: a command in flight gives way to the next one of
\* the queue.
C27_AbandonedNeverResolved ==
    [][ /\ \A i \in Abandoned(reads) : reads'[i] = reads[i]
        /\ \A p \in Decoded :
             LET name == Controls[p[2]].name
                 value == DecodedValue[p]
             IN (/\ last' = "line"
                 /\ p[1] \in WaitLines
                 /\ \E j \in 1..Len(deferreds[name]) : deferreds[name][j] \in Abandoned(reads)
                 /\ LineReceived(p[1])) =>
                    /\ receiver'.cached_values[name] = value
                    /\ deferreds'[name] = <<>>
                    /\ \A j \in 1..Len(deferreds[name]) :
                         LET i == deferreds[name][j]
                         IN i \notin Abandoned(reads) =>
                              reads'[i].called /\ reads'[i].result = value
                    /\ Handed(receiver') = Handed(receiver)
                    /\ (receiver.deferred_writer = "Waiting" /\ receiver.pending_writes # <<>>) =>
                          /\ receiver'.transport =
                                Append(receiver.transport, Head(receiver.pending_writes))
                          /\ receiver'.pending_writes = Tail(receiver.pending_writes)
                    /\ receiver.pending_writes = <<>> => receiver'.deferred_writer = "None"
      ]_vars

\* of two reads of one control the first was abandoned; the line that then
\* arrived resolved the second with the value now cached, left the first
\* failed, and let the status command of the second go out
C27_Witness ==
    /\ last = "line"
    /\ Len(reads) = 2
    /\ reads[1].control = reads[2].control
    /\ Abandoned(reads) = {1}
    /\ reads[2].called
    /\ reads[2].result = receiver.cached_values[reads[2].control]
    /\ Truthy(reads[2].result)
    /\ deferreds[reads[1].control] = <<>>
    /\ Len(receiver.transport) = 2
    /\ receiver.deferred_writer = "Waiting"

\* C26: in the catalogue, the reply line of one control changes the cache
\* entry of no other control and fulfils or removes the waiters of no other
\* control.
C26_ReplyTouchesOneControl ==
    [][ \A rp \in Replies :
          (last' = "line" /\ CatalogueLineReceived(rp.line)) =>
              \A name \in CatalogueNames \ {rp.control} :
                   /\ receiver'.cached_values[name] = receiver.cached_values[name]
                   /\ deferreds'[name] = deferreds[name]
      ]_vars

\* every order in which __set_name__ can have registered the controls of the
\* catalogue
Registries ==
    { [i \in 1..Len(Catalogue) |-> Catalogue[f[i]]] :
        f \in { g \in [1..Len(Catalogue) -> 1..Len(Catalogue)] :
                  \A i, j \in 1..Len(Catalogue) : g[i] = g[j] => i = j } }

\* C25: the handling of a line runs the parse of every entry whose pattern
\* matches it, and the cache, the waiter lists, the handles and the write
\* queue that result are the same in whatever order the entries were
\* registered.
C25_RegistrationOrderIrrelevant ==
    \A line \in CatalogueLines :
        LET st == ParseOver(Catalogue, State, line)
        IN /\ \A k \in 1..Len(Catalogue) :
                LET mt == PatternMatch(Catalogue[k], line)
                    name == Catalogue[k].name
                IN mt.matched =>
                     IF Decode(Catalogue[k], mt.group).ok
                     THEN /\ st.r.cached_values[name] = Decode(Catalogue[k], mt.group).value
                          /\ st.d[name] = <<>>
                     ELSE st.r.cached_values[name] = None
           /\ \A handlers \in Registries : ParseOver(handlers, State, line) = st

\* one line was matched by the patterns of two entries and the parse of both
\* ran: each cached its capture and resolved the read that waited for it
C25_Witness ==
    /\ last = "line"
    /\ Len(reads) = 2
    /\ reads[1].control = "channel_volume_subwoofer"
    /\ reads[1].called /\ reads[1].result = IntVal(2)
    /\ reads[2].control = "channel_volume_subwoofer2"
    /\ reads[2].called /\ reads[2].result = IntVal(50)
    /\ receiver.cached_values["channel_volume_subwoofer"] = IntVal(2)
    /\ receiver.cached_values["channel_volume_subwoofer2"] = IntVal(50)
    /\ \A name \in CatalogueNames : deferreds[name] = <<>>

\* the controls of the catalogue that are queried with the status command of
\* the control name
SharingQuery(name) ==
    { other \in CatalogueNames \ {name} :
        CatalogueControlOf(other).status_command = CatalogueControlOf(name).status_command }

\* C23: when controls share a status command, the reply line of one of them
\* resolves the waiters of that control with the value of the line, and
\* leaves the waiters of the controls sharing the query waiting, unresolved.
C23_SharedQueryIndependent ==
    [][ \A rp \in Replies :
          (last' = "line" /\ SharingQuery(rp.control) # {}
           /\ CatalogueLineReceived(rp.line)) =>
              LET ctl == CatalogueControlOf(rp.control)
                  value == Decode(ctl, PatternMatch(ctl, rp.line).group).value
              IN /\ deferreds'[rp.control] = <<>>
                 /\ \A j \in 1..Len(deferreds[rp.control]) :
                      LET h == reads'[deferreds[rp.control][j]]
                      IN h.called /\ h.result = value
                 /\ \A other \in SharingQuery(rp.control) :
                      /\ deferreds'[other] = deferreds[other]
                      /\ \A j \in 1..Len(deferreds[other]) :
                           ~reads'[deferreds[other][j]].called
      ]_vars

====
